---- MODULE Spec2Model ----
(***************************************************************************)
(* Model of the lights_out_solver algebra core:                            *)
(*   finite_field.rs  GFElement and its four operations,                   *)
(*   linalg.rs        Matrix: to_rref, the pivot predicates, is_solvable   *)
(*                    and solution.                                        *)
(* Spec      drives a Matrix through its methods (to_rref one loop body    *)
(*           at a time, the other methods as single steps).                *)
(* FieldSpec applies the GFElement operations to drawn operands.           *)
(* WideFieldSpec applies Mul to operands of moduli next to i32::MAX, in a   *)
(*           build with and in a build without overflow checks.            *)
(***************************************************************************)
EXTENDS Integers, Sequences, FiniteSets, TLC

VARIABLES
    rows,       \* Matrix.rows of the receiver (self.rows)
    reduced,    \* TRUE when the receiver is itself a value returned by to_rref
    pc,         \* position of the caller / of to_rref's loops
    new_rows,   \* to_rref: the working copy
    row_idx,    \* to_rref: outer loop index
    col_idx,    \* to_rref: inner loop index
    n_swaps,    \* to_rref: executions of new_rows.swap in the last swap loop
    call,       \* the method that returned last
    result,     \* its return value
    fop,        \* GFElement: the operation applied last
    fa,         \* GFElement: left operand (self)
    fb,         \* GFElement: right operand (other)
    fres,       \* GFElement: the outcome, an element or a panic
    fargs       \* GFElement::new: the raw arguments v, m and the period count k

vars == <<rows, reduced, pc, new_rows, row_idx, col_idx, n_swaps, call, result,
          fop, fa, fb, fres, fargs>>

matrix_vars == <<rows, reduced, pc, new_rows, row_idx, col_idx, n_swaps, call, result>>

field_vars == <<fop, fa, fb, fres, fargs>>

-----------------------------------------------------------------------------
(* Bounds of the model *)

\* field operands are built from raw integers in -MaxRaw..MaxRaw
MaxRaw == 8

\* field moduli range over -1..MaxModulus (0 and -1 only for construction)
MaxModulus == 7

\* construct(v + k*m, m) is tried for k in -MaxPeriods..MaxPeriods
MaxPeriods == 2

\* the wide moduli are the i32 values MaxI32 - g for g in 0..MaxGap
MaxGap == 2

\* matrices have 1..MaxRows rows and 1..MaxCols columns over the prime moduli up
\* to MaxPrime; a shape is taken for a modulus when it has at most MaxMatrices
\* matrices (3 x 3 for moduli 2 and 3; 2 x 3 and 3 x 2 for modulus 5)
MaxRows == 3

MaxCols == 3

MaxPrime == 5

MaxMatrices == 20000

-----------------------------------------------------------------------------
(* i32 arithmetic *)

MaxI32 == 2147483647

MinI32 == -MaxI32 - 1

\* x + y on i32 with two's-complement wrap-around
WrapAdd(x, y) ==
    IF x >= 0 /\ y >= 0 /\ x > MaxI32 - y
        THEN (x - MaxI32 - 1) + (y - MaxI32 - 1)
    ELSE IF x < 0 /\ y < 0 /\ x < MinI32 - y
        THEN (x + MaxI32 + 1) + (y + MaxI32 + 1)
    ELSE x + y

\* i32::wrapping_mul for 0 <= x, y <= MaxI32, on 16-bit limbs so that no
\* intermediate value leaves the range of the model's integers:
\*   x * y mod 2^32 = (xl*yl + ((xh*yl + xl*yh) mod 2^16) * 2^16) mod 2^32
WrapMul(x, y) ==
    LET xl == x % 65536
        xh == x \div 65536
        yl == y % 65536
        yh == y \div 65536
        t0 == (xl % 256) * yl
        t1 == (xl \div 256) * yl
        low == t0 + ((t1 % 256) * 256)
        lo == low % 65536
        hi == ((low \div 65536) + (t1 \div 256)
                 + ((xh * yl) % 65536) + ((xl * yh) % 65536)) % 65536
    IN  IF hi >= 32768 THEN (hi - 65536) * 65536 + lo ELSE hi * 65536 + lo

\* the truncating remainder (Rust's %): the sign follows the dividend
rem_trunc(v, m) ==
    IF v >= 0 THEN v % m ELSE -((-v) % m)

\* i32::rem_euclid for a divisor m # 0: the remainder in [0, |m|)
rem_euclid(v, m) ==
    IF m > 0 THEN v % m ELSE v % (-m)

-----------------------------------------------------------------------------
(* finite_field.rs: GFElement *)

Panic(msg) == [panic |-> msg]

IsPanic(r) == "panic" \in DOMAIN r

GFElement(v, m) == [value |-> v, modulus |-> m]

\* GFElement::new
new(v, m) ==
    IF m < 0 THEN Panic("assertion failed: m >= 0")
    ELSE IF m = 0 THEN Panic("remainder with a divisor of zero")
    ELSE GFElement(rem_euclid(v, m), m)

\* impl Add
add(a, b) ==
    IF a.modulus # b.modulus THEN Panic("assertion failed: modulus")
    ELSE new(rem_euclid(WrapAdd(a.value, b.value), a.modulus), a.modulus)

\* impl Sub
sub(a, b) ==
    IF a.modulus # b.modulus THEN Panic("assertion failed: modulus")
    ELSE new(rem_euclid(a.value - b.value, a.modulus), a.modulus)

\* impl Mul
mul(a, b) ==
    IF a.modulus # b.modulus THEN Panic("assertion failed: modulus")
    ELSE new(rem_euclid(WrapMul(a.value, b.value), a.modulus), a.modulus)

\* x * y leaves the i32 range, for x >= 0 and y >= 0
MulOverflows(x, y) == x # 0 /\ y > MaxI32 \div x

\* impl Mul in a build with overflow checks (debug): the product panics
\* instead of wrapping
mul_checked(a, b) ==
    IF a.modulus # b.modulus THEN Panic("assertion failed: modulus")
    ELSE IF MulOverflows(a.value, b.value) THEN Panic("attempt to multiply with overflow")
    ELSE mul(a, b)

RECURSIVE mult_inverse_skip(_, _)
\* mult_inverse_from with the returned index off by one
mult_inverse_skip(x, i) ==
    IF i >= x.modulus THEN Panic("Multiplicative inverse not found")
    ELSE IF rem_euclid(WrapMul(x.value, i), x.modulus) = 1 THEN new(i + 1, x.modulus)
    ELSE mult_inverse_skip(x, i + 1)

RECURSIVE mult_inverse_from(_, _)
\* the loop of mult_inverse, entered at i
mult_inverse_from(x, i) ==
    IF i >= x.modulus THEN Panic("Multiplicative inverse not found")
    ELSE IF rem_euclid(WrapMul(x.value, i), x.modulus) = 1 THEN new(i, x.modulus)
    ELSE mult_inverse_from(x, i + 1)

RECURSIVE mult_inverse_short_from(_, _)
\* the loop of mult_inverse over 0..modulus-1 exclusive: one index short
mult_inverse_short_from(x, i) ==
    IF i >= x.modulus - 1 THEN Panic("Multiplicative inverse not found")
    ELSE IF rem_euclid(WrapMul(x.value, i), x.modulus) = 1 THEN new(i, x.modulus)
    ELSE mult_inverse_short_from(x, i + 1)

\* mult_inverse with the loop one index short
mult_inverse_short(x) == mult_inverse_short_from(x, 0)

\* GFElement::mult_inverse
mult_inverse(x) == mult_inverse_from(x, 0)

\* impl Div
div(a, b) ==
    IF a.modulus # b.modulus THEN Panic("assertion failed: modulus")
    ELSE IF b.value = 0 THEN Panic("Division by 0 attempted")
    ELSE LET inv == mult_inverse(b)
         IN  IF IsPanic(inv) THEN inv
             ELSE GFElement(rem_euclid(WrapMul(a.value, inv.value), a.modulus), a.modulus)

-----------------------------------------------------------------------------
(* The GFElement operations applied to drawn operands *)

RawValues == (-MaxRaw)..MaxRaw

Moduli == 1..MaxModulus

NoElement == GFElement(0, 1)

NoArgs == [v |-> 0, m |-> 0, k |-> 0]

NoMatrix ==
    /\ rows = <<>>
    /\ reduced = FALSE
    /\ pc = "idle"
    /\ new_rows = <<>>
    /\ row_idx = 0
    /\ col_idx = 0
    /\ n_swaps = 0
    /\ call = "none"
    /\ result = [ok |-> FALSE]

\* the operands are built with GFElement::new from raw integers
FieldInit ==
    /\ NoMatrix
    /\ fop = "none"
    /\ \E v \in RawValues, w \in RawValues, m1 \in Moduli, m2 \in Moduli :
           /\ fa = new(v, m1)
           /\ fb = new(w, m2)
    /\ fres = NoElement
    /\ fargs = NoArgs

\* GFElement::new(v, m) and GFElement::new(v + k*m, m)
NewOp ==
    /\ fop = "none"
    /\ \E v \in RawValues, m \in (-1)..MaxModulus, k \in (-MaxPeriods)..MaxPeriods :
           /\ fa' = new(v, m)
           /\ fb' = new(v + k * m, m)
           /\ fargs' = [v |-> v, m |-> m, k |-> k]
    /\ fop' = "new"
    /\ fres' = fa'
    /\ UNCHANGED matrix_vars

\* fa + fb
AddOp ==
    /\ fop = "none"
    /\ fop' = "add"
    /\ fres' = add(fa, fb)
    /\ UNCHANGED <<fa, fb, fargs>>
    /\ UNCHANGED matrix_vars

\* fa - fb
SubOp ==
    /\ fop = "none"
    /\ fop' = "sub"
    /\ fres' = sub(fa, fb)
    /\ UNCHANGED <<fa, fb, fargs>>
    /\ UNCHANGED matrix_vars

\* fa * fb
MulOp ==
    /\ fop = "none"
    /\ fop' = "mul"
    /\ fres' = mul(fa, fb)
    /\ UNCHANGED <<fa, fb, fargs>>
    /\ UNCHANGED matrix_vars

\* fa / fb
DivOp ==
    /\ fop = "none"
    /\ fop' = "div"
    /\ fres' = div(fa, fb)
    /\ UNCHANGED <<fa, fb, fargs>>
    /\ UNCHANGED matrix_vars

\* fb.mult_inverse()
MultInverseOp ==
    /\ fop = "none"
    /\ fop' = "mult_inverse"
    /\ fres' = mult_inverse(fb)
    /\ UNCHANGED <<fa, fb, fargs>>
    /\ UNCHANGED matrix_vars

FieldNext == NewOp \/ AddOp \/ SubOp \/ MulOp \/ DivOp \/ MultInverseOp

FieldSpec == FieldInit /\ [][FieldNext]_vars

-----------------------------------------------------------------------------
(* Mul on operands of the moduli at the top of the i32 range *)

WideModuli == {MaxI32 - g : g \in 0..MaxGap}

\* the operands are built with GFElement::new from raw integers: a negative raw
\* value gives an element just below the modulus
WideInit ==
    /\ NoMatrix
    /\ fop = "none"
    /\ \E v \in RawValues, w \in RawValues, m1 \in WideModuli, m2 \in WideModuli :
           /\ fa = new(v, m1)
           /\ fb = new(w, m2)
    /\ fres = NoElement
    /\ fargs = NoArgs

\* fa * fb in a build with overflow checks
MulOpChecked ==
    /\ fop = "none"
    /\ fop' = "mul"
    /\ fres' = mul_checked(fa, fb)
    /\ UNCHANGED <<fa, fb, fargs>>
    /\ UNCHANGED matrix_vars

\* the product is computed with or without overflow checks, as the build decides
WideNext == MulOp \/ MulOpChecked

WideFieldSpec == WideInit /\ [][WideNext]_vars

-----------------------------------------------------------------------------
(* linalg.rs: Matrix.  Indices are 0-based as in the source. *)

Ok(v) == [ok |-> v]

Some(v) == [some |-> v]

None == [none |-> TRUE]

At(rs, r, c) == rs[r + 1][c + 1]

NRows(rs) == Len(rs)

NCols(rs) == Len(rs[1])

\* Vec::swap(i, j)
swap(rs, i, j) ==
    [k \in 1..Len(rs) |-> IF k = i + 1 THEN rs[j + 1]
                          ELSE IF k = j + 1 THEN rs[i + 1]
                          ELSE rs[k]]

RECURSIVE swap_loop(_, _, _, _, _)
\* to_rref: the loop over lower_row_idx, entered at lower with count swaps done
swap_loop(rs, r, c, lower, count) ==
    IF lower >= NRows(rs) THEN [rows |-> rs, swaps |-> count]
    ELSE IF At(rs, lower, c).value # 0
        THEN swap_loop(swap(rs, r, lower), r, c, lower + 1, count + 1)
    ELSE swap_loop(rs, r, c, lower + 1, count)

\* to_rref: the first match on new_rows[row_idx][col_idx].value
swap_step(rs, r, c) ==
    IF At(rs, r, c).value = 0 THEN swap_loop(rs, r, c, r + 1, 0)
    ELSE [rows |-> rs, swaps |-> 0]

\* scale_row with the division starting one column late, after the pivot entry
scale_row_after_pivot(rs, r, c) ==
    LET scale == At(rs, r, c)
    IN  [rs EXCEPT ![r + 1] =
            [j \in 1..NCols(rs) |-> IF j - 1 > c THEN div(rs[r + 1][j], scale)
                                    ELSE rs[r + 1][j]]]

\* to_rref: scale the current row by its first element
scale_row(rs, r, c) ==
    LET scale == At(rs, r, c)
    IN  [rs EXCEPT ![r + 1] =
            [j \in 1..NCols(rs) |-> IF j - 1 >= c THEN div(rs[r + 1][j], scale)
                                    ELSE rs[r + 1][j]]]

\* zero_others over the rows below r only
zero_below(rs, r, c) ==
    [o \in 1..NRows(rs) |->
        IF o - 1 > r /\ At(rs, o - 1, c).value # 0
            THEN LET scale == At(rs, o - 1, c)
                 IN  [j \in 1..NCols(rs) |->
                        IF j - 1 >= c THEN sub(rs[o][j], mul(scale, rs[r + 1][j]))
                        ELSE rs[o][j]]
        ELSE rs[o]]

\* to_rref: zero column c in the rows other than r
zero_others(rs, r, c) ==
    [o \in 1..NRows(rs) |->
        IF o - 1 # r /\ At(rs, o - 1, c).value # 0
            THEN LET scale == At(rs, o - 1, c)
                 IN  [j \in 1..NCols(rs) |->
                        IF j - 1 >= c THEN sub(rs[o][j], mul(scale, rs[r + 1][j]))
                        ELSE rs[o][j]]
        ELSE rs[o]]

\* to_rref: the arm of the second match for a non-zero value
reduce_with(rs, r, c) == zero_others(scale_row(rs, r, c), r, c)

RECURSIVE rref_from(_, _, _)
\* to_rref: the two nested loops, entered at (r, c)
rref_from(rs, r, c) ==
    IF r >= NRows(rs) THEN rs
    ELSE IF c >= NCols(rs) THEN rref_from(rs, r + 1, 0)
    ELSE LET s == swap_step(rs, r, c).rows
         IN  IF At(s, r, c).value = 0 THEN rref_from(s, r, c + 1)
             ELSE rref_from(reduce_with(s, r, c), r + 1, 0)

\* Matrix::to_rref
to_rref(rs) == rref_from(rs, 0, 0)

\* Matrix::unaugmented_matrix
unaugmented_matrix(rs) ==
    LET row_len == Len(rs[1])
    IN  [i \in 1..Len(rs) |-> SubSeq(rs[i], 1, row_len - 1)]

AllZero(row) == \A j \in 1..Len(row) : row[j].value = 0

\* Iterator::find(|x| x.value != 0) on a row that is not all zero
FirstNonZero(row) ==
    row[CHOOSE j \in 1..Len(row) :
            /\ row[j].value # 0
            /\ \A k \in 1..(j - 1) : row[k].value = 0]

\* Matrix::every_row_has_a_pivot
every_row_has_a_pivot(rs) ==
    \A i \in 1..Len(rs) : AllZero(rs[i]) \/ FirstNonZero(rs[i]).value = 1

\* Matrix::transpose
transpose(rs) ==
    IF \E col \in 0..(NCols(rs) - 1), row \in 0..(NRows(rs) - 1) :
            col >= NRows(rs) \/ row >= NCols(rs)
        THEN Panic("index out of bounds")
    ELSE Ok([col \in 1..NCols(rs) |-> [row \in 1..NRows(rs) |-> rs[col][row]]])

\* Matrix::every_column_has_a_pivot
every_column_has_a_pivot(rs) ==
    LET t == transpose(rs)
    IN  IF IsPanic(t) THEN t ELSE Ok(every_row_has_a_pivot(t.ok))

\* Matrix::is_any_row_unsolvable
is_any_row_unsolvable(rs) ==
    \E i \in 1..Len(rs) :
        /\ AllZero(SubSeq(rs[i], 1, Len(rs[i]) - 1))
        /\ rs[i][Len(rs[i])].value # 0

\* is_solvable without the test for an unsolvable row
is_solvable_pivots_only(rs) ==
    every_row_has_a_pivot(unaugmented_matrix(to_rref(rs)))

\* Matrix::is_solvable
is_solvable(rs) ==
    LET matrix_rref == to_rref(rs)
    IN  IF is_any_row_unsolvable(matrix_rref) THEN FALSE
        ELSE every_row_has_a_pivot(unaugmented_matrix(matrix_rref))

\* Matrix::solution
solution(rs) ==
    IF ~is_solvable(rs) THEN None
    ELSE LET r == to_rref(rs)
         IN  Some([i \in 1..Len(r) |-> r[i][Len(r[i])]])

-----------------------------------------------------------------------------
(* A Matrix and the calls on it *)

IsPrime(p) == p >= 2 /\ \A d \in 2..(p - 1) : p % d # 0

Primes == {p \in 2..MaxPrime : IsPrime(p)}

RECURSIVE FewMatrices(_, _, _)
\* p^cells <= budget
FewMatrices(p, cells, budget) ==
    IF cells = 0 THEN budget >= 1
    ELSE budget >= p /\ FewMatrices(p, cells - 1, budget \div p)

Shapes(p) ==
    {s \in (1..MaxRows) \X (1..MaxCols) : FewMatrices(p, s[1] * s[2], MaxMatrices)}

\* Matrix::new on rows of GFElement::new(v, p), all of one length and one modulus
Matrices ==
    UNION {UNION {[1..s[1] -> [1..s[2] -> {new(v, p) : v \in 0..(p - 1)}]] : s \in Shapes(p)}
           : p \in Primes}

Init ==
    /\ rows \in Matrices
    /\ reduced = FALSE
    /\ pc = "idle"
    /\ new_rows = <<>>
    /\ row_idx = 0
    /\ col_idx = 0
    /\ n_swaps = 0
    /\ call = "none"
    /\ result = Ok(FALSE)
    /\ fop = "none"
    /\ fa = NoElement
    /\ fb = NoElement
    /\ fres = NoElement
    /\ fargs = NoArgs

loop_vars == <<new_rows, row_idx, col_idx, n_swaps>>

\* to_rref is entered: n_rows, n_cols and the working copy
ToRrefEnter ==
    /\ pc = "idle"
    /\ pc' = "swap"
    /\ new_rows' = rows
    /\ row_idx' = 0
    /\ col_idx' = 0
    /\ n_swaps' = 0
    /\ UNCHANGED <<rows, reduced, call, result>>
    /\ UNCHANGED field_vars

\* to_rref: the first match of the inner loop body (the swap attempt)
SwapStep ==
    /\ pc = "swap"
    /\ row_idx < NRows(new_rows)
    /\ LET s == swap_step(new_rows, row_idx, col_idx)
       IN  /\ new_rows' = s.rows
           /\ n_swaps' = s.swaps
    /\ pc' = "pivot"
    /\ UNCHANGED <<rows, reduced, row_idx, col_idx, call, result>>
    /\ UNCHANGED field_vars

\* to_rref: the second match, value 0: on to the next column, or the next row
\* when the columns are exhausted
NoPivot ==
    /\ pc = "pivot"
    /\ At(new_rows, row_idx, col_idx).value = 0
    /\ IF col_idx + 1 < NCols(new_rows)
           THEN /\ col_idx' = col_idx + 1
                /\ row_idx' = row_idx
           ELSE /\ col_idx' = 0
                /\ row_idx' = row_idx + 1
    /\ pc' = "swap"
    /\ UNCHANGED <<rows, reduced, new_rows, n_swaps, call, result>>
    /\ UNCHANGED field_vars

\* to_rref: the second match, value non-zero: scale, zero the column, next row
Reduce ==
    /\ pc = "pivot"
    /\ At(new_rows, row_idx, col_idx).value # 0
    /\ new_rows' = reduce_with(new_rows, row_idx, col_idx)
    /\ row_idx' = row_idx + 1
    /\ col_idx' = 0
    /\ pc' = "swap"
    /\ UNCHANGED <<rows, reduced, n_swaps, call, result>>
    /\ UNCHANGED field_vars

\* to_rref returns Matrix::new(new_rows)
ToRrefReturn ==
    /\ pc = "swap"
    /\ row_idx >= NRows(new_rows)
    /\ pc' = "returned"
    /\ call' = "to_rref"
    /\ result' = Ok(new_rows)
    /\ UNCHANGED <<rows, reduced>>
    /\ UNCHANGED loop_vars
    /\ UNCHANGED field_vars

\* the next call is made on the matrix to_rref returned
ChainOnResult ==
    /\ pc = "returned"
    /\ call = "to_rref"
    /\ ~reduced
    /\ rows' = result.ok
    /\ reduced' = TRUE
    /\ pc' = "idle"
    /\ new_rows' = <<>>
    /\ row_idx' = 0
    /\ col_idx' = 0
    /\ n_swaps' = 0
    /\ call' = "none"
    /\ result' = Ok(FALSE)
    /\ UNCHANGED field_vars

\* self.is_solvable()
IsSolvable ==
    /\ pc = "idle"
    /\ pc' = "returned"
    /\ call' = "is_solvable"
    /\ result' = Ok(is_solvable(rows))
    /\ UNCHANGED <<rows, reduced>>
    /\ UNCHANGED loop_vars
    /\ UNCHANGED field_vars

\* self.solution()
Solution ==
    /\ pc = "idle"
    /\ pc' = "returned"
    /\ call' = "solution"
    /\ result' = solution(rows)
    /\ UNCHANGED <<rows, reduced>>
    /\ UNCHANGED loop_vars
    /\ UNCHANGED field_vars

\* self.every_column_has_a_pivot()
EveryColumnHasAPivot ==
    /\ pc = "idle"
    /\ pc' = "returned"
    /\ call' = "every_column_has_a_pivot"
    /\ result' = every_column_has_a_pivot(rows)
    /\ UNCHANGED <<rows, reduced>>
    /\ UNCHANGED loop_vars
    /\ UNCHANGED field_vars

Next ==
    \/ ToRrefEnter
    \/ SwapStep
    \/ NoPivot
    \/ Reduce
    \/ ToRrefReturn
    \/ ChainOnResult
    \/ IsSolvable
    \/ Solution
    \/ EveryColumnHasAPivot

Spec == Init /\ [][Next]_vars

\* the loop of to_rref taken step by step returns what rref_from computes
ToRrefAgrees ==
    (pc = "returned" /\ call = "to_rref") => result = Ok(to_rref(rows))

-----------------------------------------------------------------------------
(* Linear systems over GF(p), by definition *)

Returned(name) == pc = "returned" /\ call = name

Modulus(rs) == rs[1][1].modulus

RECURSIVE DotTo(_, _, _)
\* the sum over j in 1..n of row[j].value * x[j]
DotTo(row, x, n) ==
    IF n = 0 THEN 0 ELSE DotTo(row, x, n - 1) + row[n].value * x[n]

\* x, one integer per coefficient column, satisfies every equation of rs
Satisfies(rs, x) ==
    \A i \in 1..NRows(rs) :
        DotTo(rs[i], x, NCols(rs) - 1) % Modulus(rs) = rs[i][NCols(rs)].value

HasSolution(rs) ==
    \E x \in [1..(NCols(rs) - 1) -> 0..(Modulus(rs) - 1)] : Satisfies(rs, x)

\* C1: on an augmented matrix over a prime modulus with at least two columns,
\* is_solvable returns true exactly when some x over GF(p) satisfies A*x = b,
\* and solution returns None exactly when no such x exists
C1_SolvableIffSolutionExists ==
    (pc = "returned" /\ NCols(rows) >= 2) =>
        /\ call = "is_solvable" => result = Ok(HasSolution(rows))
        /\ call = "solution" => ((result = None) <=> ~HasSolution(rows))

\* C1 case: solution returned None for a 3 x 3 system whose coefficient rows are
\* not all zero
C1_Witness ==
    /\ Returned("solution")
    /\ ~reduced
    /\ result = None
    /\ NRows(rows) = 3
    /\ NCols(rows) = 3
    /\ \A i \in 1..3 : ~AllZero(SubSeq(rows[i], 1, 2))

\* C2: with n rows and n coefficient columns, a returned solution vector read
\* positionally (x[i] is the value of unknown i) satisfies every equation
C2_SolutionSatisfiesSystem ==
    (Returned("solution") /\ NRows(rows) = NCols(rows) - 1 /\ result # None) =>
        Satisfies(rows, [i \in 1..NRows(rows) |-> result.some[i].value])

\* C3: to_rref applied to a matrix that to_rref returned gives that matrix back
C3_RrefIdempotent ==
    (Returned("to_rref") /\ reduced) => result = Ok(rows)

\* C3 case: the second reduction of a 3-row matrix with a pivot-free row has returned
C3_Witness ==
    /\ Returned("to_rref")
    /\ reduced
    /\ NRows(rows) = 3
    /\ NCols(rows) = 3
    /\ AllZero(rows[3])
    /\ ~AllZero(rows[2])

LeadCol(row) ==
    CHOOSE j \in 1..Len(row) :
        /\ row[j].value # 0
        /\ \A k \in 1..(j - 1) : row[k].value = 0

IsRREF(rs) ==
    /\ \A i \in 1..Len(rs) : ~AllZero(rs[i]) => rs[i][LeadCol(rs[i])].value = 1
    /\ \A i \in 1..Len(rs), k \in 1..Len(rs) :
           (i < k /\ ~AllZero(rs[i]) /\ ~AllZero(rs[k])) =>
               LeadCol(rs[i]) < LeadCol(rs[k])
    /\ \A i \in 1..Len(rs), k \in 1..Len(rs) :
           (i # k /\ ~AllZero(rs[i])) => rs[k][LeadCol(rs[i])].value = 0

\* C4: the matrix to_rref returns is in reduced row-echelon form: every non-zero
\* row leads with 1, the leading columns strictly increase down the rows, and a
\* column holding a leading 1 is zero in all other rows
C4_ResultIsRREF ==
    Returned("to_rref") => IsRREF(result.ok)

\* C4 case: to_rref returned a matrix it had to change, with a pivot right of the
\* diagonal (the column scan went past column r in row r)
C4_Witness ==
    /\ Returned("to_rref")
    /\ ~reduced
    /\ result.ok # rows
    /\ \E i \in 1..NRows(rows) :
           ~AllZero(result.ok[i]) /\ LeadCol(result.ok[i]) > i

Scenario3 ==
    <<<<new(1, 2), new(0, 2), new(1, 2)>>,
      <<new(0, 2), new(1, 2), new(1, 2)>>,
      <<new(0, 2), new(0, 2), new(0, 2)>>>>

\* C5: for [[1,0,1],[0,1,1],[0,0,0]] modulo 2, is_solvable returns true and
\* solution returns the vector [1,1]
C5_Scenario3Solution ==
    (pc = "returned" /\ rows = Scenario3) =>
        /\ call = "is_solvable" => result = Ok(TRUE)
        /\ call = "solution" => result = Some(<<new(1, 2), new(1, 2)>>)

\* every column of rs is all zero or has 1 as its first non-zero entry from the top
ColumnsLeadWithOne(rs) ==
    \A j \in 1..NCols(rs) :
        LET col == [i \in 1..NRows(rs) |-> rs[i][j]]
        IN  AllZero(col) \/ col[LeadCol(col)].value = 1

\* C6: every_column_has_a_pivot returns true exactly when every column of the
\* matrix is all zero or has its first non-zero entry, top to bottom, equal to 1
C6_ColumnPivotsOfTranspose ==
    Returned("every_column_has_a_pivot") => result = Ok(ColumnsLeadWithOne(rows))

LowerNonZero(rs, r, c) ==
    {l \in (r + 1)..(NRows(rs) - 1) : At(rs, l, c).value # 0}

Least(S) == CHOOSE x \in S : \A y \in S : x <= y

\* C10: when the entry at (r, c) is zero and some lower row is non-zero in column
\* c, the swap step puts the first such lower row into position r with one swap
C10_FirstLowerRowSwappedOnce ==
    [][(/\ pc = "swap"
        /\ row_idx < NRows(new_rows)
        /\ At(new_rows, row_idx, col_idx).value = 0
        /\ LowerNonZero(new_rows, row_idx, col_idx) # {})
       => (/\ new_rows'[row_idx + 1] =
                 new_rows[Least(LowerNonZero(new_rows, row_idx, col_idx)) + 1]
           /\ n_swaps' = 1)]_vars

-----------------------------------------------------------------------------
(* Modular arithmetic, by definition *)

RECURSIVE GCD(_, _)
GCD(a, b) == IF b = 0 THEN a ELSE GCD(b, a % b)

\* the smallest i in [0, m) with (b.value * i) mod m = 1
SmallestInverse(b) ==
    CHOOSE i \in 0..(b.modulus - 1) :
        /\ (b.value * i) % b.modulus = 1
        /\ \A j \in 0..(i - 1) : (b.value * j) % b.modulus # 1

\* C7: for a prime modulus and b.value # 0, (a / b) * b = a, and a / b is a times
\* the smallest i in [0, m) with (b.value * i) mod m = 1
C7_DivInvertsMul ==
    (fop = "div" /\ fa.modulus = fb.modulus /\ IsPrime(fb.modulus) /\ fb.value # 0) =>
        /\ ~IsPanic(fres)
        /\ mul(fres, fb) = fa
        /\ fres = mul(fa, new(SmallestInverse(fb), fb.modulus))

\* C7 case: 2 / 3 modulo 7 has been computed
C7_Witness ==
    /\ fop = "div"
    /\ fa = new(2, 7)
    /\ fb = new(3, 7)
    /\ fres = new(3, 7)

InverseFailsIffNotCoprime ==
    /\ IsPanic(fres) <=> GCD(fb.value, fb.modulus) # 1
    /\ ~IsPanic(fres) => (fb.value * fres.value) % fb.modulus = 1

\* C8 as stated: for every modulus m >= 1, mult_inverse fails exactly when
\* gcd(x.value, m) # 1, and otherwise returns i with (x.value * i) mod m = 1
C8_InverseFailsIffNotCoprime ==
    fop = "mult_inverse" => InverseFailsIffNotCoprime

\* C8 amended: the same for every modulus m >= 2
C8_InverseFailsIffNotCoprimeFrom2 ==
    (fop = "mult_inverse" /\ fb.modulus >= 2) => InverseFailsIffNotCoprime

\* C8 case: the search failed for a non-zero zero divisor
C8_Witness ==
    /\ fop = "mult_inverse"
    /\ fb.modulus >= 2
    /\ fb.value # 0
    /\ IsPanic(fres)

InRange(e) == ~IsPanic(e) /\ e.value \in 0..(e.modulus - 1)

\* C9: for m > 0, construct(v, m) has its value in [0, m) and equals
\* construct(v + k*m, m); add, sub and mul of two elements of one modulus return
\* a value in [0, m)
C9_CanonicalAndPeriodic ==
    /\ (fop = "new" /\ fargs.m > 0) =>
           /\ InRange(fa)
           /\ fa.modulus = fargs.m
           /\ (fa.value - fargs.v) % fargs.m = 0
           /\ fa = fb
    /\ (fop \in {"add", "sub", "mul"} /\ fa.modulus = fb.modulus) =>
           /\ InRange(fres)
           /\ fres.modulus = fa.modulus

\* C9 case: a negative raw value and a non-zero number of periods were constructed
C9_Witness ==
    /\ fop = "new"
    /\ fargs.v < 0
    /\ fargs.k # 0
    /\ fargs.m > 1
    /\ fa.value # 0

\* x + y modulo m, for x and y in [0, m)
AddMod(x, y, m) == IF x >= m - y THEN x - (m - y) ELSE x + y

RECURSIVE MulModAcc(_, _, _, _)
\* acc + x * y modulo m, for acc and x in [0, m) and y >= 0, by doubling x
MulModAcc(x, y, m, acc) ==
    IF y = 0 \/ acc < 0 \/ x < 0 THEN acc
    ELSE MulModAcc(AddMod(x, x, m), y \div 2, m,
                   IF y % 2 = 1 THEN AddMod(acc, x, m) ELSE acc)

\* x * y modulo m, for x and y in [0, m)
MulMod(x, y, m) == MulModAcc(x, y, m, 0)

\* C11: with 32-bit signed integers, mul(a, b) returns (a.value * b.value) mod
\* modulus in [0, modulus) for every modulus an i32 holds and every pair of
\* elements of that modulus: the product never overflows or wraps
C11_MulExactInI32 ==
    (fop = "mul" /\ fa.modulus = fb.modulus) =>
        /\ ~IsPanic(fres)
        /\ fres = GFElement(MulMod(fa.value, fb.value, fa.modulus), fa.modulus)

====
